---- MODULE Spec2Model ----
(***************************************************************************)
(* simple-example: the FieldChip (load_private, load_constant, mul,        *)
(* expose_public), MyCircuit::synthesize and the run/verify driver of      *)
(* main, over a small modulus.  The constraint system, the region layouter *)
(* and the verifier the chip calls into are modelled as the assignment     *)
(* table, the sequential-row layouter and the constraint checker.          *)
(***************************************************************************)
EXTENDS Integers, Sequences, FiniteSets, TLC

\* ---------------------------------------------------------------- bounds
\* modulus of the field values
P == 3
\* rows of the assignment table
NumRows == 8
\* cells a prover may overwrite between synthesis and verification
MaxTamper == 1

Field == 0 .. (P - 1)
Rows == 0 .. (NumRows - 1)

\* Value<F>: a known field value, or unknown (Value::unknown / Value::default)
Unknown == P
Value == Field \cup {Unknown}
\* content of a table cell nothing was assigned to
Unassigned == P + 1

FMul(x, y) == (x * y) % P
FSub(x, y) == (x + P - y) % P
FAdd(x, y) == (x + y) % P

\* Value<F> * Value<F>: unknown as soon as one side is unknown
ValueMul(x, y) == IF x = Unknown \/ y = Unknown THEN Unknown ELSE FMul(x, y)

\* ------------------------------------------------------- MyCircuit::configure
\* the columns allocated by MyCircuit::configure
AdviceColumns == <<"advice0", "advice1">>
InstanceColumn == "instance"
ConstantColumn == "constant"
SelectorMul == "s_mul"

AdviceSet == {AdviceColumns[i] : i \in 1 .. Len(AdviceColumns)}
AdviceCells == AdviceSet \X Rows

\* FieldConfig, as returned by FieldChip::configure
FieldConfig ==
    [advice |-> AdviceColumns, instance |-> InstanceColumn, s_mul |-> SelectorMul]

\* config.advice[i] (the source indexes from 0)
Advice(i) == FieldConfig.advice[i + 1]

\* the columns FieldChip::configure enables equality on
EnableEquality == {InstanceColumn, ConstantColumn} \cup AdviceSet

\* gate "mul": the cells it queries, as (column, rotation)
MulQueries ==
    [lhs |-> <<Advice(0), 0>>, rhs |-> <<Advice(1), 0>>, out |-> <<Advice(0), 1>>]

\* gate "mul" with the selector factor left out
MulGateNoSelector(s_mul, lhs, rhs, out) == FSub(FMul(lhs, rhs), out)

\* gate "mul": s_mul * (lhs * rhs - out)
MulGate(s_mul, lhs, rhs, out) == FMul(s_mul, FSub(FMul(lhs, rhs), out))

\* ------------------------------------------------------------ the prover
\* the state synthesis builds: table, selector map, equality constraints,
\* and the layouter's per-column next free row and its regions
EmptyProver ==
    [equality |-> {},
     advice |-> [c \in AdviceCells |-> Unassigned],
     fixed |-> [r \in Rows |-> Unassigned],
     selectors |-> {},
     copies |-> {},
     columns |-> [c \in AdviceSet \cup {SelectorMul, ConstantColumn} |-> 0],
     regions |-> <<>>,
     writes |-> [c \in AdviceCells |-> 0],
     err |-> "ok"]

Max(S) == CHOOSE x \in S : \A y \in S : y <= x

\* the column an operation of a region touches
OpColumn(op) == IF op.op = "enable" THEN op.selector ELSE op.column

\* RegionShape: the columns a region uses and its row count
ShapeColumns(ops) == {OpColumn(ops[i]) : i \in 1 .. Len(ops)}
ShapeRows(ops) == Max({ops[i].offset + 1 : i \in 1 .. Len(ops)})

\* the first row at which none of the region's columns is in use
RegionStart(prover, ops) == Max({prover.columns[c] : c \in ShapeColumns(ops)})

\* the table cell an operation of a region anchored at start addresses
OpCell(op, start) == <<OpColumn(op), start + op.offset>>

\* copy(left, right): both columns must take part in equality constraints
CopyCells(prover, left, right) ==
    IF left[1] \in prover.equality /\ right[1] \in prover.equality
    THEN [prover EXCEPT !.copies = @ \cup {<<left, right>>}]
    ELSE [prover EXCEPT !.err = "ColumnNotInPermutation"]

\* assign_advice: the cell takes the value; a second assignment overwrites
AssignAdvice(prover, cell, v) ==
    [prover EXCEPT !.advice[cell] = v, !.writes[cell] = @ + 1]

\* the constants column takes the constant in its next free row and that
\* cell is constrained equal to the advice cell
AssignConstant(prover, cell, k) ==
    LET row == prover.columns[ConstantColumn]
        p1 == [prover EXCEPT !.fixed[row] = k, !.columns[ConstantColumn] = row + 1]
    IN  IF row \in Rows THEN CopyCells(p1, <<ConstantColumn, row>>, cell)
        ELSE [prover EXCEPT !.err = "NotEnoughRowsAvailable"]

\* one operation of a region, applied to the table
ApplyOp(prover, op, start) ==
    LET cell == OpCell(op, start) IN
    IF prover.err # "ok" THEN prover
    ELSE IF cell[2] \notin Rows THEN [prover EXCEPT !.err = "NotEnoughRowsAvailable"]
    ELSE CASE op.op = "enable" -> [prover EXCEPT !.selectors = @ \cup {cell[2]}]
           [] op.op = "assign" -> AssignAdvice(prover, cell, op.value)
           [] op.op = "copy" ->
                CopyCells(AssignAdvice(prover, cell, op.value), op.from, cell)
           [] op.op = "assign_const" ->
                AssignConstant(AssignAdvice(prover, cell, op.value), cell, op.value)

RECURSIVE ApplyOps(_, _, _, _)
ApplyOps(prover, ops, start, i) ==
    IF i > Len(ops) THEN prover
    ELSE ApplyOps(ApplyOp(prover, ops[i], start), ops, start, i + 1)

\* Layouter::assign_region: measure the region, place it, assign its cells
AssignRegion(prover, name, ops) ==
    LET start == RegionStart(prover, ops)
        rows == ShapeRows(ops)
        placed == [prover EXCEPT
                     !.columns = [c \in DOMAIN @ |->
                                    IF c \in ShapeColumns(ops) THEN start + rows ELSE @[c]],
                     !.regions = Append(@, [name |-> name, start |-> start, rows |-> rows])]
    IN  ApplyOps(placed, ops, start, 1)

\* Layouter::constrain_instance
ConstrainInstance(prover, cell, column, row) ==
    CopyCells(prover, cell, <<column, row>>)

\* ------------------------------------------------- FieldChip instructions
\* Number: the assigned cell and the value it carries
Number(cell, v) == [cell |-> cell, value |-> v]

\* the region operations of load_private
load_private(value) ==
    <<[op |-> "assign", column |-> Advice(0), offset |-> 0, value |-> value]>>

\* load_constant without the constant binding, as a plain advice assignment
load_constant_unbound(constant) ==
    <<[op |-> "assign", column |-> Advice(0), offset |-> 0, value |-> constant]>>

\* the region operations of load_constant
load_constant(constant) ==
    <<[op |-> "assign_const", column |-> Advice(0), offset |-> 0, value |-> constant]>>

\* mul placing the product by the value of its operand
mul_by_value(a, b) ==
    <<[op |-> "enable", selector |-> FieldConfig.s_mul, offset |-> 0],
      [op |-> "copy", from |-> a.cell, column |-> Advice(0), offset |-> 0,
       value |-> a.value],
      [op |-> "copy", from |-> b.cell, column |-> Advice(1), offset |-> 0,
       value |-> b.value],
      [op |-> "assign", column |-> Advice(1),
       offset |-> IF a.value = 0 THEN 1 ELSE 0,
       value |-> ValueMul(a.value, b.value)]>>

\* mul assigning its right operand without copying it
mul_no_copy(a, b) ==
    <<[op |-> "enable", selector |-> FieldConfig.s_mul, offset |-> 0],
      [op |-> "copy", from |-> a.cell, column |-> Advice(0), offset |-> 0,
       value |-> a.value],
      [op |-> "assign", column |-> Advice(1), offset |-> 0, value |-> b.value],
      [op |-> "assign", column |-> Advice(1), offset |-> 0,
       value |-> ValueMul(a.value, b.value)]>>

\* the region operations of mul, in the order of the closure
mul(a, b) ==
    <<[op |-> "enable", selector |-> FieldConfig.s_mul, offset |-> 0],
      [op |-> "copy", from |-> a.cell, column |-> Advice(0), offset |-> 0,
       value |-> a.value],
      [op |-> "copy", from |-> b.cell, column |-> Advice(1), offset |-> 0,
       value |-> b.value],
      [op |-> "assign", column |-> Advice(1), offset |-> 0,
       value |-> ValueMul(a.value, b.value)]>>

\* the Number an instruction returns: the cell of the region's last operation
Returned(prover, ops) ==
    LET region == prover.regions[Len(prover.regions)]
        op == ops[Len(ops)]
    IN  Number(OpCell(op, region.start), op.value)

\* expose_public with the instance row off by one
expose_public_wrong_row(num, row) == [cell |-> num.cell, row |-> row + 1]

\* expose_public: the cell and the instance row it is constrained to
expose_public(num, row) == [cell |-> num.cell, row |-> row]

\* ------------------------------------------------- MyCircuit::synthesize
\* the Numbers synthesize holds, before any is assigned
NoNumber == Number(<<"none", 0>>, Unassigned)
NoNumbers == [n \in {"a", "b", "constant", "ab", "absq", "c"} |-> NoNumber]

\* an instruction that assigns a region and returns a Number, bound to name
Instruction(st, name, region, ops) ==
    LET p == AssignRegion(st.prover, region, ops)
    IN  [prover |-> p, num |-> [st.num EXCEPT ![name] = Returned(p, ops)]]

\* the calls of synthesize, in order
Steps == <<"load_a", "load_b", "load_constant", "mul_ab", "mul_absq", "mul_c", "expose">>

\* the i-th call of synthesize on circuit c, from state st = [prover, num]
SynthesizeStep(i, c, st) ==
    CASE i = 1 -> Instruction(st, "a", "load private", load_private(c.a))
      [] i = 2 -> Instruction(st, "b", "load private", load_private(c.b))
      [] i = 3 -> Instruction(st, "constant", "load constant", load_constant(c.constant))
      [] i = 4 -> Instruction(st, "ab", "mul", mul(st.num["a"], st.num["b"]))
      [] i = 5 -> Instruction(st, "absq", "mul", mul(st.num["ab"], st.num["ab"]))
      [] i = 6 -> Instruction(st, "c", "mul", mul(st.num["constant"], st.num["absq"]))
      [] i = 7 -> LET e == expose_public(st.num["c"], 0)
                  IN  [st EXCEPT !.prover =
                         ConstrainInstance(@, e.cell, FieldConfig.instance, e.row)]

\* the prover as configure leaves it
Configured == [EmptyProver EXCEPT !.equality = EnableEquality]

\* the first n calls of synthesize on circuit c; an error ends the run
RECURSIVE SynthesizeTo(_, _)
SynthesizeTo(n, c) ==
    IF n = 0 THEN [prover |-> Configured, num |-> NoNumbers]
    ELSE LET st == SynthesizeTo(n - 1, c)
         IN  IF st.prover.err # "ok" THEN st ELSE SynthesizeStep(n, c, st)

\* MyCircuit::without_witnesses: Self::default()
WithoutWitnesses == [constant |-> 0, a |-> Unknown, b |-> Unknown]

\* ------------------------------------------------------------- verifier
\* the public input vector as the instance column: rows past it hold zero
InstanceValue(inst, row) == IF row + 1 <= Len(inst) THEN inst[row + 1] ELSE 0

\* the content of a cell of the table
CellValue(prover, inst, cell) ==
    IF cell[1] \in AdviceSet THEN prover.advice[cell]
    ELSE IF cell[1] = ConstantColumn THEN prover.fixed[cell[2]]
    ELSE InstanceValue(inst, cell[2])

\* a cell as a gate reads it: an unassigned cell reads as zero
Query(prover, q, row) ==
    LET v == prover.advice[<<q[1], (row + q[2]) % NumRows>>]
    IN  IF v = Unassigned THEN 0 ELSE v

\* gate "mul" evaluated at a row of the table
EvalMul(prover, row) ==
    MulGate(IF row \in prover.selectors THEN 1 ELSE 0,
            Query(prover, MulQueries.lhs, row),
            Query(prover, MulQueries.rhs, row),
            Query(prover, MulQueries.out, row))

Failure(kind, x, y) == [kind |-> kind, a |-> x, b |-> y]

\* (a) the gate does not vanish at a row
GateViolations(prover) ==
    {Failure("GateViolation", <<"mul", r>>, <<"mul", r>>) :
        r \in {r \in Rows : EvalMul(prover, r) # 0}}

\* the cells gate "mul" queries from a row
QueriedCells(row) ==
    {<<MulQueries[f][1], row + MulQueries[f][2]>> : f \in {"lhs", "rhs", "out"}}

\* a gate active at a row queries a cell never assigned, or outside the table
UnassignedCells(prover) ==
    {Failure("UnassignedCell", <<"mul", x[1]>>, x[2]) :
        x \in {y \in prover.selectors \X (AdviceSet \X (0 .. NumRows)) :
                 /\ y[2] \in QueriedCells(y[1])
                 /\ (y[2] \in AdviceCells => prover.advice[y[2]] = Unassigned)}}

\* (b) an equality constraint between two cells of the table that differ
CopyViolations(prover, inst) ==
    {Failure("CopyViolation", e[1], e[2]) :
        e \in {e \in prover.copies :
                 /\ e[1][1] # InstanceColumn /\ e[2][1] # InstanceColumn
                 /\ CellValue(prover, inst, e[1]) # CellValue(prover, inst, e[2])}}

\* (c) a cell bound to an instance row differs from the public input there
PublicInputMismatches(prover, inst) ==
    {Failure("PublicInputMismatch", <<InstanceColumn, e[2][2]>>, e[1]) :
        e \in {e \in prover.copies :
                 /\ e[2][1] = InstanceColumn
                 /\ CellValue(prover, inst, e[1]) # CellValue(prover, inst, e[2])}}

\* verify: every violation found; none is success
VerifyFailures(prover, inst) ==
    GateViolations(prover) \cup UnassignedCells(prover)
        \cup CopyViolations(prover, inst) \cup PublicInputMismatches(prover, inst)

\* ---------------------------------------------------------- state machine
VARIABLES
    pc,         \* the next call of synthesize, or the phase of the run
    circuit,    \* MyCircuit: constant, a, b
    instance,   \* the public input vector
    prover,     \* the table and constraints built so far
    num,        \* the Numbers synthesize holds
    tampered,   \* the cells overwritten after synthesis, with their values
    failures    \* the result of verify

vars == <<pc, circuit, instance, prover, num, tampered, failures>>

Known(c) == c.a # Unknown /\ c.b # Unknown

Init ==
    /\ pc = "configure"
    /\ circuit \in [constant : Field, a : Value, b : Value]
    /\ instance \in [1 .. 1 -> Field]
    /\ prover = EmptyProver
    /\ num = NoNumbers
    /\ tampered = <<>>
    /\ failures = {}

\* MyCircuit::configure and FieldChip::configure
Configure ==
    /\ pc = "configure"
    /\ prover' = Configured
    /\ pc' = Steps[1]
    /\ UNCHANGED <<circuit, instance, num, tampered, failures>>

\* the i-th call of synthesize; an Err returned by it ends the run
Call(i) ==
    /\ pc = Steps[i]
    /\ LET st == SynthesizeStep(i, circuit, [prover |-> prover, num |-> num])
       IN  /\ prover' = st.prover
           /\ num' = st.num
           /\ pc' = IF st.prover.err # "ok" THEN "error"
                    ELSE IF i < Len(Steps) THEN Steps[i + 1] ELSE "synthesized"
    /\ UNCHANGED <<circuit, instance, tampered, failures>>

LoadA == Call(1)
LoadB == Call(2)
LoadConstant == Call(3)
MulAB == Call(4)
MulAbsq == Call(5)
MulC == Call(6)
ExposePublic == Call(7)

\* the row after the last region: the last row a gate of a region can query
LastRow(p) == Max({p.columns[c] : c \in AdviceSet})

\* position of an advice cell, to overwrite cells in one order only
CellIndex(cell) == cell[2] * Len(AdviceColumns) + (IF cell[1] = Advice(0) THEN 0 ELSE 1)

\* a prover overwrites one advice cell of the synthesized table
Tamper ==
    /\ pc = "synthesized"
    /\ Known(circuit)
    /\ Len(tampered) < MaxTamper
    /\ \E cell \in {c \in AdviceCells : c[2] <= LastRow(prover)}, v \in Field :
        /\ prover.advice[cell] # v
        /\ \A i \in 1 .. Len(tampered) : CellIndex(tampered[i].cell) < CellIndex(cell)
        /\ prover' = [prover EXCEPT !.advice[cell] = v]
        /\ tampered' = Append(tampered, [cell |-> cell, old |-> prover.advice[cell], new |-> v])
    /\ UNCHANGED <<pc, circuit, instance, num, failures>>

\* MockProver::verify on the table, against the public input vector
Verify ==
    /\ pc = "synthesized"
    /\ Known(circuit)
    /\ failures' = VerifyFailures(prover, instance)
    /\ pc' = "done"
    /\ UNCHANGED <<circuit, instance, prover, num, tampered>>

Next ==
    \/ Configure
    \/ LoadA
    \/ LoadB
    \/ LoadConstant
    \/ MulAB
    \/ MulAbsq
    \/ MulC
    \/ ExposePublic
    \/ Tamper
    \/ Verify

Spec == Init /\ [][Next]_vars

\* ------------------------------------------------------------ properties
\* the calls of synthesize that have returned
StepsDone ==
    IF pc \in {"synthesized", "done"} THEN Len(Steps)
    ELSE IF \E i \in 1 .. Len(Steps) : Steps[i] = pc
         THEN (CHOOSE i \in 1 .. Len(Steps) : Steps[i] = pc) - 1
         ELSE 0

\* the three calls of mul in synthesize: step, region, operands, result
MulCalls ==
    {[step |-> 4, a |-> "a", b |-> "b", out |-> "ab"],
     [step |-> 5, a |-> "ab", b |-> "ab", out |-> "absq"],
     [step |-> 6, a |-> "constant", b |-> "absq", out |-> "c"]}

\* the calls of mul that have returned; every call assigns one region, so
\* the region of the call made at step i is the i-th
MulReturned == {m \in MulCalls : m.step <= StepsDone}
Anchor(m) == prover.regions[m.step].start

\* constant * a^2 * b^2, as main computes the public input
Expected(c) == FMul(FMul(c.constant, FMul(c.a, c.a)), FMul(c.b, c.b))

Honest == tampered = <<>>
Reported(kind) == {f \in failures : f.kind = kind}

\* C1: for all field values a, b, k, synthesize followed by verification
\* against the public input [k * a^2 * b^2] reports no violation.
C1_Completeness ==
    (pc = "done" /\ Honest /\ instance[1] = Expected(circuit)) => failures = {}

C3_ProductPlacement ==
    Honest => \A m \in MulReturned :
        LET r == Anchor(m)
            product == ValueMul(num[m.a].value, num[m.b].value)
        IN  /\ prover.regions[m.step].rows = 2
            /\ r \in prover.selectors
            /\ <<Advice(0), r + 1>> \in AdviceCells
            /\ prover.advice[<<Advice(0), r + 1>>] = product
            /\ num[m.out] = Number(<<Advice(0), r + 1>>, product)

\* C4: at every row where s_mul is not enabled, whatever values the advice
\* columns hold at that row and the next, verification reports no
\* GateViolation of gate "mul".
C4_SelectorGating ==
    pc = "done" => \A r \in Rows \ prover.selectors :
        Failure("GateViolation", <<"mul", r>>, <<"mul", r>>) \notin failures

C4_Witness ==
    /\ pc = "done" /\ Len(tampered) = 1
    /\ LET r == tampered[1].cell[2]
       IN  /\ r \notin prover.selectors
           /\ prover.advice[<<Advice(0), r>>] # Unassigned
           /\ prover.advice[<<Advice(1), r>>] # Unassigned
           /\ FMul(prover.advice[<<Advice(0), r>>], prover.advice[<<Advice(1), r>>])
                # Query(prover, MulQueries.out, r)

\* the equality constraints between two cells of the table
TableCopies == {e \in prover.copies : e[1][1] # InstanceColumn /\ e[2][1] # InstanceColumn}

\* C5: the copies of every mul and the constant binding of load_constant
\* are recorded as equality constraints, and for every recorded constraint
\* (X, Y), a table in which only Y was changed, to a value other than X's,
\* is reported with a CopyViolation of (X, Y).
C5_CopyConstraintLaw ==
    /\ \A m \in MulReturned :
         /\ <<num[m.a].cell, <<Advice(0), Anchor(m)>>>> \in prover.copies
         /\ <<num[m.b].cell, <<Advice(1), Anchor(m)>>>> \in prover.copies
    /\ StepsDone >= 3 => \E e \in TableCopies :
         e[1][1] = ConstantColumn /\ e[2] = num["constant"].cell
    /\ (pc = "done" /\ Len(tampered) = 1) => \A e \in TableCopies :
         \A y \in {e[1], e[2]} : \A x \in {e[1], e[2]} \ {y} :
            (tampered[1].cell = y /\ CellValue(prover, instance, x) # tampered[1].new)
                => Failure("CopyViolation", e[1], e[2]) \in failures

C5_Witness ==
    /\ pc = "done" /\ Len(tampered) = 1
    /\ \E m \in MulCalls :
         /\ tampered[1].cell = <<Advice(0), Anchor(m)>>
         /\ tampered[1].new # num[m.a].value
         /\ Failure("CopyViolation", num[m.a].cell, tampered[1].cell) \in failures

\* C6: load_constant(k) places k in an advice cell, binds that cell by an
\* equality constraint to a Fixed cell holding k and returns a Number
\* carrying k; a table in which only that advice cell holds another value
\* fails verification on that constraint.
C6_ConstantBinding ==
    LET n == num["constant"] IN
    /\ (StepsDone >= 3 /\ Honest) =>
         /\ n.value = circuit.constant
         /\ n.cell \in AdviceCells
         /\ prover.advice[n.cell] = circuit.constant
         /\ \E r \in Rows : /\ prover.fixed[r] = circuit.constant
                            /\ <<<<ConstantColumn, r>>, n.cell>> \in prover.copies
    /\ (pc = "done" /\ Len(tampered) = 1 /\ tampered[1].cell = n.cell) =>
         \E f \in Reported("CopyViolation") : f.a[1] = ConstantColumn /\ f.b = n.cell

C6_Witness ==
    /\ pc = "done" /\ Len(tampered) = 1
    /\ tampered[1].cell = num["constant"].cell
    /\ tampered[1].old = circuit.constant
    /\ tampered[1].new # circuit.constant

\* C7: when mul(a, b) anchored at row r has returned, advice column 0 at
\* row r holds a's value and advice column 1 at row r holds b's value, so
\* both equality constraints of its two copies are satisfied.
C7_CopiedInputsSurvive ==
    Honest => \A m \in MulReturned :
        /\ prover.advice[<<Advice(0), Anchor(m)>>] = num[m.a].value
        /\ prover.advice[<<Advice(1), Anchor(m)>>] = num[m.b].value

\* C8: during one synthesize run no cell of the assignment table is
\* assigned more than once.
C8_WriteOnce == \A cell \in AdviceCells : prover.writes[cell] <= 1

\* C9: in the table synthesize produces, at every row where s_mul is
\* enabled the three cells gate "mul" queries lie inside the table and were
\* assigned, so verification reports no unassigned cell.
C9_NoUnassignedQuery ==
    /\ (pc \in {"synthesized", "done"} /\ Honest) =>
          \A r \in prover.selectors : \A cell \in QueriedCells(r) :
              cell \in AdviceCells /\ prover.advice[cell] # Unassigned
    /\ (pc = "done" /\ Honest) => Reported("UnassignedCell") = {}

\* the layout of a run: the calls made, the cells assigned, the rows where
\* s_mul is enabled and the equality constraints
Layout(p) ==
    [regions |-> p.regions,
     columns |-> p.columns,
     assigned |-> {c \in AdviceCells : p.advice[c] # Unassigned},
     fixed |-> {r \in Rows : p.fixed[r] # Unassigned},
     writes |-> p.writes,
     selectors |-> p.selectors,
     copies |-> p.copies,
     err |-> p.err]

\* C10: a run of synthesize on any witness and constant makes the calls,
\* assigns the cells, enables s_mul at the rows and records the equality
\* constraints of the run on the all-unknown witness of without_witnesses.
C10_LayoutValueIndependent ==
    (Honest /\ pc # "configure") =>
        LET ref == SynthesizeTo(StepsDone, WithoutWitnesses)
        IN  /\ Layout(prover) = Layout(ref.prover)
            /\ \A n \in DOMAIN num : num[n].cell = ref.num[n].cell

C10_Witness ==
    /\ pc = "synthesized" /\ Honest
    /\ circuit = [constant |-> 2, a |-> 1, b |-> 2]
    /\ Len(prover.regions) = 6

====
